---- MODULE Spec2Model ----
(***************************************************************************)
(* SmartCalendar, src/src/events.py: the Events record, the Month bucket   *)
(* and the DataController (windowed start-up load, CRUD routing, save on   *)
(* shut-down) as a state machine.                                          *)
(*                                                                         *)
(* Python objects have identity: every Events object carries an oid, and   *)
(* since class Events defines no __eq__, `in`, list.remove and list.index  *)
(* compare by identity (PyEq).  An optional value is <<>> for None and     *)
(* <<x>> for a value x.  A formatted string is modelled by the fields it   *)
(* carries: "YYYY-MM-DD" is <<year, month, day>>, "HH:MM" is               *)
(* <<hour, minute>>, "YYYY-MM-DD HH:MM" is the five of them.               *)
(***************************************************************************)
EXTENDS Integers, Sequences, FiniteSets, TLC

VARIABLES
    storage,    \* the data_storage directory: a sequence of files in listdir order
    pc,         \* "down": no DataController exists; "up": one has been
                \* constructed; "saved": its shut_down has returned;
                \* "month": the caller works on a Month of its own
    self_month, \* a Month bucket the caller constructed itself (TestMonth.setUp)
    _months,    \* DataController._months: the list of Month buckets
    nextOid,    \* identity of the next Events object to be constructed
    sessions,   \* number of DataController constructions so far
    calls,      \* number of calls so far that changed a bucket or the list
    started,    \* history: <<month, year>> of datetime.datetime.now() at the
                \* start of the running process, <<0, 0>> when none runs
    last        \* history: the last call, its argument and how it returned

vars == <<storage, pc, self_month, _months, nextOid, sessions, calls, started, last>>

(***************************************************************************)
(* Bounds of the model: the number of times the process is started, and    *)
(* the number of calls that change the controller's buckets.               *)
(***************************************************************************)
MaxSessions == 2
MaxCalls == 3

(***************************************************************************)
(* Values.                                                                 *)
(***************************************************************************)
None == <<>>
Some(x) == <<x>>

datetime(y, mo, d, h, mi) ==
    [year |-> y, month |-> mo, day |-> d, hour |-> h, minute |-> mi]

\* Events.__init__
Events(oid, event_id, event_name, event_description, event_date, event_time, event_location, event_type, event_status, event_priority, event_notes, event_reminder) ==
    [class |-> "Events", oid |-> oid,
     event_id |-> event_id, event_name |-> event_name,
     event_description |-> event_description, event_date |-> event_date,
     event_time |-> event_time, event_location |-> event_location,
     event_type |-> event_type, event_status |-> event_status,
     event_priority |-> event_priority, event_notes |-> event_notes,
     event_reminder |-> event_reminder]

\* The fields of an Events object without its identity.
Fields(e) ==
    [event_id |-> e.event_id, event_name |-> e.event_name,
     event_description |-> e.event_description, event_date |-> e.event_date,
     event_time |-> e.event_time, event_location |-> e.event_location,
     event_type |-> e.event_type, event_status |-> e.event_status,
     event_priority |-> e.event_priority, event_notes |-> e.event_notes,
     event_reminder |-> e.event_reminder]

\* Events.get_month, Events.get_year
get_month(e) == e.event_date.month
get_year(e) == e.event_date.year

\* Events.print_date: strftime("%Y-%m-%d")
print_date(e) == <<e.event_date.year, e.event_date.month, e.event_date.day>>

\* Events.print_time: strftime("%H:%M") if event_time else None
print_time(e) ==
    IF e.event_time # None
    THEN Some(<<e.event_time[1].hour, e.event_time[1].minute>>)
    ELSE None

\* event_reminder.strftime("%Y-%m-%d %H:%M") if event_reminder else None
print_reminder(e) ==
    IF e.event_reminder # None
    THEN LET r == e.event_reminder[1]
         IN Some(<<r.year, r.month, r.day, r.hour, r.minute>>)
    ELSE None

\* datetime.datetime.strptime(s, "%Y-%m-%d"): midnight of that day
strptime_date(s) == datetime(s[1], s[2], s[3], 0, 0)

\* datetime.datetime.strptime(s, "%H:%M"): that time on 1900-01-01
strptime_time(s) == datetime(1900, 1, 1, s[1], s[2])

\* datetime.datetime.strptime(s, "%Y-%m-%d %H:%M")
strptime_reminder(s) == datetime(s[1], s[2], s[3], s[4], s[5])

\* An __eq__ that compares the fields, which class Events does not define.
PyEqByValue(a, b) == Fields(a) = Fields(b)

\* Equality of two Python objects of class Events: the class defines no
\* __eq__, so == is object identity.
PyEq(a, b) == a.oid = b.oid

\* `event in events`
Contains(events, event) == \E i \in 1..Len(events) : PyEq(events[i], event)

\* events.index(event): the first position holding the object
IndexOf(events, event) ==
    CHOOSE i \in 1..Len(events) :
        /\ PyEq(events[i], event)
        /\ \A j \in 1..(i - 1) : ~PyEq(events[j], event)

\* A remove that drops the last entry whatever the argument.
ListRemoveLast(events, event) == SubSeq(events, 1, Len(events) - 1)

\* events.remove(event): the list without its first occurrence
ListRemove(events, event) ==
    LET i == IndexOf(events, event)
    IN SubSeq(events, 1, i - 1) \o SubSeq(events, i + 1, Len(events))

(***************************************************************************)
(* Month.  A call returns how it ended and the bucket as it leaves it.     *)
(***************************************************************************)
Month(month, year) == [_month |-> month, _year |-> year, _events |-> <<>>]

Return(m) == [outcome |-> "ok", msg |-> "", month |-> m]
Raise(exc, msg, m) == [outcome |-> exc, msg |-> msg, month |-> m]

\* Month.add_event without the loop over the ids (lines 132-134).
Month_add_event_without_id_check(m, event) ==
    IF event.class # "Events"
    THEN Raise("TypeError", "event must be of type Events", m)
    ELSE IF get_month(event) # m._month \/ get_year(event) # m._year
    THEN Raise("ValueError", "event month and year must match month and year of the Month object", m)
    ELSE Return([m EXCEPT !._events = Append(@, event)])

\* Month.add_event without the comparison of month and year (lines 129-130).
Month_add_event_without_date_check(m, event) ==
    IF event.class # "Events"
    THEN Raise("TypeError", "event must be of type Events", m)
    ELSE IF \E i \in 1..Len(m._events) : m._events[i].event_id = event.event_id
    THEN Raise("ValueError", "event already exists in the month", m)
    ELSE Return([m EXCEPT !._events = Append(@, event)])

\* Month.add_event with `and` for the `or` of line 129.
Month_add_event_month_and_year(m, event) ==
    IF event.class # "Events"
    THEN Raise("TypeError", "event must be of type Events", m)
    ELSE IF get_month(event) # m._month /\ get_year(event) # m._year
    THEN Raise("ValueError", "event month and year must match month and year of the Month object", m)
    ELSE IF \E i \in 1..Len(m._events) : m._events[i].event_id = event.event_id
    THEN Raise("ValueError", "event already exists in the month", m)
    ELSE Return([m EXCEPT !._events = Append(@, event)])

\* Month.add_event with self._events.insert(0, event) for the append of
\* line 136.
Month_add_event_at_front(m, event) ==
    IF event.class # "Events"
    THEN Raise("TypeError", "event must be of type Events", m)
    ELSE IF get_month(event) # m._month \/ get_year(event) # m._year
    THEN Raise("ValueError", "event month and year must match month and year of the Month object", m)
    ELSE IF \E i \in 1..Len(m._events) : m._events[i].event_id = event.event_id
    THEN Raise("ValueError", "event already exists in the month", m)
    ELSE Return([m EXCEPT !._events = <<event>> \o @])

\* Month.add_event
Month_add_event(m, event) ==
    IF event.class # "Events"
    THEN Raise("TypeError", "event must be of type Events", m)
    ELSE IF get_month(event) # m._month \/ get_year(event) # m._year
    THEN Raise("ValueError", "event month and year must match month and year of the Month object", m)
    ELSE IF \E i \in 1..Len(m._events) : m._events[i].event_id = event.event_id
    THEN Raise("ValueError", "event already exists in the month", m)
    ELSE Return([m EXCEPT !._events = Append(@, event)])

\* Month.remove_event
Month_remove_event(m, event) ==
    IF event.class # "Events"
    THEN Raise("TypeError", "event must be of type Events", m)
    ELSE IF ~Contains(m._events, event)
    THEN Raise("ValueError", "event not found in the month", m)
    ELSE Return([m EXCEPT !._events = ListRemove(@, event)])

\* Month.update_event writing to index 0 instead of the index of the event.
Month_update_event_at_front(m, event) ==
    IF event.class # "Events"
    THEN Raise("TypeError", "event must be of type Events", m)
    ELSE IF ~Contains(m._events, event)
    THEN Raise("ValueError", "event not found in the month", m)
    ELSE Return([m EXCEPT !._events[1] = event])

\* Month.update_event
Month_update_event(m, event) ==
    IF event.class # "Events"
    THEN Raise("TypeError", "event must be of type Events", m)
    ELSE IF ~Contains(m._events, event)
    THEN Raise("ValueError", "event not found in the month", m)
    ELSE Return([m EXCEPT !._events[IndexOf(m._events, event)] = event])

(***************************************************************************)
(* Persisted records.  A file is [name, data]; data is the mapping that    *)
(* yaml.safe_load returns: keys is the set of its top-level keys (empty    *)
(* for an empty document, which loads as None).                            *)
(***************************************************************************)
\* The event mapping shut_down writes for an event (lines 232-244).
EventData(event) ==
    [event_id |-> event.event_id,
     event_name |-> event.event_name,
     event_description |-> event.event_description,
     event_date |-> print_date(event),
     event_time |-> print_time(event),
     event_location |-> event.event_location,
     event_type |-> event.event_type,
     event_status |-> event.event_status,
     event_priority |-> event.event_priority,
     event_notes |-> event.event_notes,
     event_reminder |-> print_reminder(event)]

\* The Events object _start_up builds from an event mapping (lines 202-214).
EventFromData(event_data, oid) ==
    Events(oid,
           event_data.event_id,
           event_data.event_name,
           event_data.event_description,
           strptime_date(event_data.event_date),
           IF event_data.event_time # None
           THEN Some(strptime_time(event_data.event_time[1])) ELSE None,
           event_data.event_location,
           event_data.event_type,
           event_data.event_status,
           event_data.event_priority,
           event_data.event_notes,
           IF event_data.event_reminder # None
           THEN Some(strptime_reminder(event_data.event_reminder[1])) ELSE None)

\* The mapping shut_down dumps for a bucket (lines 228-247).
MonthData(m) ==
    [keys |-> {"month", "year", "events"},
     month |-> m._month, year |-> m._year,
     events |-> [i \in 1..Len(m._events) |-> EventData(m._events[i])]]

\* The file name shut_down derives from a bucket: the lowercase English name
\* of the month (here its number) followed by the year, with suffix .yaml.
FileName(m) == [stem |-> <<m._month, m._year>>, suffix |-> "", ext |-> "yaml"]

\* open(file_name, 'w') followed by yaml.dump: replaces the file of that name
\* or creates it.
WriteFile(files, name, data) ==
    IF \E i \in 1..Len(files) : files[i].name = name
    THEN [i \in 1..Len(files) |->
            IF files[i].name = name THEN [files[i] EXCEPT !.data = data]
            ELSE files[i]]
    ELSE Append(files, [name |-> name, data |-> data])

\* The loop of shut_down over self._months, from bucket i on.
RECURSIVE SaveMonths(_, _, _)
SaveMonths(files, months, i) ==
    IF i > Len(months) THEN files
    ELSE SaveMonths(WriteFile(files, FileName(months[i]), MonthData(months[i])),
                    months, i + 1)

(***************************************************************************)
(* _start_up: the window and the load loop.                                *)
(***************************************************************************)
\* (current_month - 2) % 12 or 12, and the year it falls in
start_month(current_month) ==
    IF (current_month - 2) % 12 # 0 THEN (current_month - 2) % 12 ELSE 12
start_year_from_february(current_month, current_year) ==
    IF current_month >= 2 THEN current_year ELSE current_year - 1
start_year(current_month, current_year) ==
    IF current_month > 2 THEN current_year ELSE current_year - 1
\* (current_month + 2) % 12 or 12, and the year it falls in
end_month(current_month) ==
    IF (current_month + 2) % 12 # 0 THEN (current_month + 2) % 12 ELSE 12
end_year(current_month, current_year) ==
    IF current_month <= 10 THEN current_year ELSE current_year + 1

\* The condition of the `continue` at lines 196-199; now is <<month, year>>.
Skipped(data, now) ==
    \/ data.keys = {}
    \/ data.year < start_year(now[1], now[2])
    \/ (data.year = start_year(now[1], now[2]) /\ data.month < start_month(now[1]))
    \/ data.year > end_year(now[1], now[2])
    \/ (data.year = end_year(now[1], now[2]) /\ data.month > end_month(now[1]))

\* The loop over data["events"] (lines 201-215), from event k on: every
\* mapping becomes a new object and is added with Month.add_event, whose
\* exception leaves the loop.
RECURSIVE LoadEvents(_, _, _, _)
LoadEvents(m, events, k, oid) ==
    IF k > Len(events)
    THEN [outcome |-> "ok", msg |-> "", month |-> m, oid |-> oid]
    ELSE LET r == Month_add_event(m, EventFromData(events[k], oid))
         IN IF r.outcome # "ok"
            THEN [outcome |-> r.outcome, msg |-> r.msg, month |-> m, oid |-> oid + 1]
            ELSE LoadEvents(r.month, events, k + 1, oid + 1)

\* The loop over file_list with a try/except around the loop over
\* data["events"]: a record with an event that Month.add_event rejects is
\* passed over.
RECURSIVE LoadFiles_skipping_rejected(_, _, _, _, _)
LoadFiles_skipping_rejected(files, i, months, oid, now) ==
    IF i > Len(files)
    THEN [outcome |-> "ok", msg |-> "", months |-> months, oid |-> oid]
    ELSE LET f == files[i]
         IN IF f.name.ext # "yaml" \/ Skipped(f.data, now)
            THEN LoadFiles_skipping_rejected(files, i + 1, months, oid, now)
            ELSE IF "events" \notin f.data.keys
            THEN [outcome |-> "KeyError", msg |-> "events",
                  months |-> months, oid |-> oid]
            ELSE LET r == LoadEvents(Month(f.data.month, f.data.year),
                                     f.data.events, 1, oid)
                 IN IF r.outcome # "ok"
                    THEN LoadFiles_skipping_rejected(files, i + 1, months,
                                                     r.oid, now)
                    ELSE LoadFiles_skipping_rejected(files, i + 1,
                                                     Append(months, r.month),
                                                     r.oid, now)

\* The loop over file_list (lines 187-216), from file i on.
RECURSIVE LoadFiles(_, _, _, _, _)
LoadFiles(files, i, months, oid, now) ==
    IF i > Len(files)
    THEN [outcome |-> "ok", msg |-> "", months |-> months, oid |-> oid]
    ELSE LET f == files[i]
         IN IF f.name.ext # "yaml" \/ Skipped(f.data, now)
            THEN LoadFiles(files, i + 1, months, oid, now)
            ELSE IF "events" \notin f.data.keys
            THEN [outcome |-> "KeyError", msg |-> "events",
                  months |-> months, oid |-> oid]
            ELSE LET r == LoadEvents(Month(f.data.month, f.data.year),
                                     f.data.events, 1, oid)
                 IN IF r.outcome # "ok"
                    THEN [outcome |-> r.outcome, msg |-> r.msg,
                          months |-> months, oid |-> r.oid]
                    ELSE LoadFiles(files, i + 1, Append(months, r.month),
                                   r.oid, now)

(***************************************************************************)
(* DataController.  A call returns how it ended and the list of buckets    *)
(* as it leaves it.                                                        *)
(***************************************************************************)
\* The bucket test of the three loops: month.get_month() == event.event_date.month
\* and month.get_year() == event.event_date.year
Matches(m, event) ==
    m._month = event.event_date.month /\ m._year = event.event_date.year

Done(outcome, msg, months) == [outcome |-> outcome, msg |-> msg, months |-> months]

\* DataController.add_event without line 303: the new bucket stays empty.
DataController_add_event_empty_bucket(months, event) ==
    IF event.class # "Events"
    THEN Done("TypeError", "event must be of type Events", months)
    ELSE IF \E i \in 1..Len(months) : Matches(months[i], event)
    THEN LET i == CHOOSE i \in 1..Len(months) :
                      /\ Matches(months[i], event)
                      /\ \A j \in 1..(i - 1) : ~Matches(months[j], event)
         IN IF Contains(months[i]._events, event)
            THEN Done("ValueError", "event already exists in the month", months)
            ELSE LET r == Month_add_event(months[i], event)
                 IN Done(r.outcome, r.msg, [months EXCEPT ![i] = r.month])
    ELSE Done("ok", "", Append(months, Month(event.event_date.month,
                                             event.event_date.year)))

\* DataController.add_event
DataController_add_event(months, event) ==
    IF event.class # "Events"
    THEN Done("TypeError", "event must be of type Events", months)
    ELSE IF \E i \in 1..Len(months) : Matches(months[i], event)
    THEN LET i == CHOOSE i \in 1..Len(months) :
                      /\ Matches(months[i], event)
                      /\ \A j \in 1..(i - 1) : ~Matches(months[j], event)
         IN IF Contains(months[i]._events, event)
            THEN Done("ValueError", "event already exists in the month", months)
            ELSE LET r == Month_add_event(months[i], event)
                 IN Done(r.outcome, r.msg, [months EXCEPT ![i] = r.month])
    ELSE LET r == Month_add_event(Month(event.event_date.month,
                                        event.event_date.year), event)
         IN IF r.outcome # "ok"
            THEN Done(r.outcome, r.msg, months)
            ELSE Done("ok", "", Append(months, r.month))

\* The first bucket the loops of remove_event and update_event act on: it
\* matches the event's month and year and holds the event.
Holder(months, event) ==
    CHOOSE i \in 1..Len(months) :
        /\ Matches(months[i], event) /\ Contains(months[i]._events, event)
        /\ \A j \in 1..(i - 1) :
              ~(Matches(months[j], event) /\ Contains(months[j]._events, event))

\* DataController.remove_event without the raise of line 320: an event
\* that no bucket holds is passed over.
DataController_remove_event_without_raise(months, event) ==
    IF event.class # "Events"
    THEN Done("TypeError", "event must be of type Events", months)
    ELSE IF \E i \in 1..Len(months) :
                Matches(months[i], event) /\ Contains(months[i]._events, event)
    THEN LET i == Holder(months, event)
             r == Month_remove_event(months[i], event)
         IN Done(r.outcome, r.msg, [months EXCEPT ![i] = r.month])
    ELSE Done("ok", "", months)

\* DataController.remove_event that also takes a bucket off the list when
\* its last event is removed.
DataController_remove_event_dropping_empty_bucket(months, event) ==
    IF event.class # "Events"
    THEN Done("TypeError", "event must be of type Events", months)
    ELSE IF \E i \in 1..Len(months) :
                Matches(months[i], event) /\ Contains(months[i]._events, event)
    THEN LET i == Holder(months, event)
             r == Month_remove_event(months[i], event)
         IN IF r.outcome = "ok" /\ r.month._events = <<>>
            THEN Done("ok", "", SubSeq(months, 1, i - 1)
                                   \o SubSeq(months, i + 1, Len(months)))
            ELSE Done(r.outcome, r.msg, [months EXCEPT ![i] = r.month])
    ELSE Done("ValueError", "event not found in the DataController", months)

\* DataController.remove_event
DataController_remove_event(months, event) ==
    IF event.class # "Events"
    THEN Done("TypeError", "event must be of type Events", months)
    ELSE IF \E i \in 1..Len(months) :
                Matches(months[i], event) /\ Contains(months[i]._events, event)
    THEN LET i == Holder(months, event)
             r == Month_remove_event(months[i], event)
         IN Done(r.outcome, r.msg, [months EXCEPT ![i] = r.month])
    ELSE Done("ValueError", "event not found in the DataController", months)

\* DataController.update_event
DataController_update_event(months, event) ==
    IF event.class # "Events"
    THEN Done("TypeError", "event must be of type Events", months)
    ELSE IF \E i \in 1..Len(months) :
                Matches(months[i], event) /\ Contains(months[i]._events, event)
    THEN LET i == Holder(months, event)
             r == Month_update_event(months[i], event)
         IN Done(r.outcome, r.msg, [months EXCEPT ![i] = r.month])
    ELSE Done("ValueError", "event not found in the DataController", months)

\* DataController.get_events with `or` for the `and` of line 346.
DataController_get_events_month_or_year(months, month, year) ==
    IF \E i \in 1..Len(months) : months[i]._month = month \/ months[i]._year = year
    THEN LET i == CHOOSE i \in 1..Len(months) :
                      /\ (months[i]._month = month \/ months[i]._year = year)
                      /\ \A j \in 1..(i - 1) :
                            ~(months[j]._month = month \/ months[j]._year = year)
         IN months[i]._events
    ELSE <<>>

\* DataController.get_events: the list of the first bucket with that month
\* and year, or an empty list.
DataController_get_events(months, month, year) ==
    IF \E i \in 1..Len(months) : months[i]._month = month /\ months[i]._year = year
    THEN LET i == CHOOSE i \in 1..Len(months) :
                      /\ months[i]._month = month /\ months[i]._year = year
                      /\ \A j \in 1..(i - 1) :
                            ~(months[j]._month = month /\ months[j]._year = year)
         IN months[i]._events
    ELSE <<>>

\* The six events demo_start_up constructs (lines 262-269), as new objects
\* oid, oid + 1, ..., in the order event1 .. event6.
DemoEvent1(oid) ==
    Events(oid, 1, "Soccer", "Soccer game", datetime(2023, 1, 15, 0, 0),
           Some(datetime(2023, 1, 15, 10, 0)), Some("Stadium"), Some("Sport"),
           Some("Confirmed"), Some(1), Some("Bring water"),
           Some(datetime(2023, 1, 14, 0, 0)))
DemoEvent2(oid) ==
    Events(oid, 2, "Basketball", "Basketball game", datetime(2023, 2, 20, 0, 0),
           Some(datetime(2023, 2, 20, 18, 0)), Some("Arena"), Some("Sport"),
           Some("Confirmed"), Some(1), Some("Bring water"),
           Some(datetime(2023, 2, 19, 0, 0)))
DemoEvent3(oid) ==
    Events(oid, 3, "Doc Appointment", "Doctor appointment",
           datetime(2023, 3, 25, 0, 0), Some(datetime(2023, 3, 25, 9, 0)),
           Some("Clinic"), Some("Health"), Some("Confirmed"), Some(1),
           Some("Bring insurance card"), Some(datetime(2023, 3, 24, 0, 0)))
DemoEvent4(oid) ==
    Events(oid, 4, "Yoga Class", "Morning yoga session",
           datetime(2023, 1, 22, 0, 0), Some(datetime(2023, 1, 22, 7, 0)),
           Some("Gym"), Some("Health"), Some("Confirmed"), Some(2),
           Some("Bring yoga mat"), Some(datetime(2023, 1, 21, 0, 0)))
DemoEvent5(oid) ==
    Events(oid, 5, "Team Meeting", "Monthly team meeting",
           datetime(2023, 2, 10, 0, 0), Some(datetime(2023, 2, 10, 14, 0)),
           Some("Office"), Some("Work"), Some("Confirmed"), Some(3),
           Some("Prepare slides"), Some(datetime(2023, 2, 9, 0, 0)))
DemoEvent6(oid) ==
    Events(oid, 6, "Birthday Party", "Friend's birthday celebration",
           datetime(2023, 3, 18, 0, 0), Some(datetime(2023, 3, 18, 19, 0)),
           Some("Restaurant"), Some("Social"), Some("Confirmed"), Some(2),
           Some("Buy a gift"), Some(datetime(2023, 3, 17, 0, 0)))

\* DataController.demo_start_up: three new buckets with two events each,
\* appended to the list whatever it holds.
DataController_demo_start_up(months, oid) ==
    LET month1 == Month_add_event(
                      Month_add_event(Month(1, 2023), DemoEvent1(oid)).month,
                      DemoEvent4(oid + 3)).month
        month2 == Month_add_event(
                      Month_add_event(Month(2, 2023), DemoEvent2(oid + 1)).month,
                      DemoEvent5(oid + 4)).month
        month3 == Month_add_event(
                      Month_add_event(Month(3, 2023), DemoEvent3(oid + 2)).month,
                      DemoEvent6(oid + 5)).month
    IN Append(Append(Append(months, month1), month2), month3)

(***************************************************************************)
(* The environment: the objects a caller constructs, the dates the process *)
(* may be started on and the directories it may find.                      *)
(***************************************************************************)
\* Events objects the caller constructs itself.  Soccer and SoccerTwin are
\* two objects with the same field values (those of the demo's event1),
\* Yoga has another id in the same month, Picnic is dated in another month.
Soccer == DemoEvent1(1)
SoccerTwin == DemoEvent1(2)
Yoga == DemoEvent4(3)
Picnic ==
    Events(4, 8, "Picnic", "Picnic in the park", datetime(2023, 6, 10, 0, 0),
           None, Some("Park"), None, None, None, None, None)
Pool == {Soccer, SoccerTwin, Yoga, Picnic}

\* The objects a caller passes to a Month of its own: those above and a
\* third event of January 2023, so that the bucket can hold three events.
Chess ==
    Events(5, 6, "Chess", "Chess club", datetime(2023, 1, 20, 0, 0),
           None, None, None, None, None, None, None)
MonthPool == Pool \cup {Chess}

\* An argument that is not an Events object.
NotAnEvent == [class |-> "str", oid |-> 0]

\* The first identity free for objects the program constructs.
FirstOid == Cardinality(MonthPool) + 1

\* (month, year) pairs callers ask get_events for.
Keys == {<<1, 2023>>, <<6, 2023>>}

\* The elements of a list.
Range(seq) == {seq[i] : i \in 1..Len(seq)}

\* What a caller can pass: its own objects, the objects get_events hands
\* out, and something that is no event.
Arguments ==
    Pool \cup {NotAnEvent}
         \cup UNION {Range(DataController_get_events(_months, key[1], key[2])) :
                        key \in Keys}

\* <<month, year>> of datetime.datetime.now() when the process starts.
SessionDates == {<<1, 2023>>}

YamlName(month, year, suffix) ==
    [stem |-> <<month, year>>, suffix |-> suffix, ext |-> "yaml"]
Record(month, year, events) ==
    [keys |-> {"month", "year", "events"}, month |-> month, year |-> year,
     events |-> events]

\* january2023.yaml as a shut_down after demo_start_up leaves it, and a
\* june2023.yaml, which a start in January 2023 does not load.
JanuaryFile ==
    [name |-> YamlName(1, 2023, ""),
     data |-> Record(1, 2023, <<EventData(DemoEvent1(0)), EventData(DemoEvent4(0))>>)]
JuneFile ==
    [name |-> YamlName(6, 2023, ""),
     data |-> Record(6, 2023, <<EventData(
                 Events(0, 9, "Exam", "Final exam", datetime(2023, 6, 5, 0, 0),
                        Some(datetime(1900, 1, 1, 9, 30)), None, None, None,
                        None, None, None))>>)]

\* A record as yaml.safe_load returns it for a file that has the month and
\* the year but no "events" key.
RecordWithoutEvents(month, year) ==
    [keys |-> {"month", "year"}, month |-> month, year |-> year,
     events |-> <<>>]

\* december2022.yaml without an "events" key; a start in January 2023 finds
\* it inside the window.
DecemberFileWithoutEvents ==
    [name |-> YamlName(12, 2022, ""), data |-> RecordWithoutEvents(12, 2022)]

\* february2023.yaml holding an event dated in January 2023, and
\* march2023.yaml holding two events with the same event_id; both are inside
\* the window of a start in January 2023.
MisdatedFile ==
    [name |-> YamlName(2, 2023, ""),
     data |-> Record(2, 2023, <<EventData(DemoEvent1(0))>>)]
RepeatedIdFile ==
    [name |-> YamlName(3, 2023, ""),
     data |-> Record(3, 2023, <<EventData(DemoEvent3(0)), EventData(DemoEvent3(0))>>)]

\* The directories a first start may find.
Directories ==
    {<<>>, <<JanuaryFile, JuneFile>>,
     <<DecemberFileWithoutEvents, JanuaryFile>>,
     <<JanuaryFile, MisdatedFile>>, <<JanuaryFile, RepeatedIdFile>>}

\* Months counted from year 0: the month after December is January.
MonthIndex(month, year) == year * 12 + (month - 1)
MonthOfIndex(n) == (n % 12) + 1
YearOfIndex(n) == n \div 12

\* A directory of 12 files for 12 consecutive months from (month, year) on,
\* none holding an event.
TwelveMonths(month, year) ==
    [i \in 1..12 |->
        LET n == MonthIndex(month, year) + i - 1
        IN [name |-> YamlName(MonthOfIndex(n), YearOfIndex(n), ""),
            data |-> Record(MonthOfIndex(n), YearOfIndex(n), <<>>)]]

\* The directories and the dates of the runs that only load and save.
WindowDirectories == {TwelveMonths(11, 2022), TwelveMonths(7, 2023)}
WindowDates == {<<m, y>> : m \in 1..12, y \in 2022..2024}

(***************************************************************************)
(* Actions: one per call.                                                  *)
(***************************************************************************)
\* DataController(): __init__ runs _start_up; an exception leaves no object.
\* A controller of an earlier run of the process is gone.
StartUp(now) ==
    /\ pc \in {"down", "saved"}
    /\ sessions < MaxSessions
    /\ LET r == LoadFiles(storage, 1, <<>>, nextOid, now)
       IN /\ pc' = IF r.outcome = "ok" THEN "up" ELSE "down"
          /\ _months' = IF r.outcome = "ok" THEN r.months ELSE <<>>
          /\ nextOid' = r.oid
          /\ last' = [op |-> "start_up", now |-> now,
                      outcome |-> r.outcome, msg |-> r.msg]
    /\ sessions' = sessions + 1
    /\ started' = IF pc' = "up" THEN now ELSE <<0, 0>>
    /\ UNCHANGED <<storage, self_month, calls>>

\* DataController.shut_down, the last call on a controller (lines 350-360).
ShutDown ==
    /\ pc = "up"
    /\ storage' = SaveMonths(storage, _months, 1)
    /\ pc' = "saved"
    /\ started' = <<0, 0>>
    /\ last' = [op |-> "shut_down", outcome |-> "ok"]
    /\ UNCHANGED <<self_month, _months, nextOid, sessions, calls>>

\* The process ends without shut_down: the controller and its buckets are gone.
Exit ==
    /\ pc = "up"
    /\ pc' = "down"
    /\ _months' = <<>>
    /\ started' = <<0, 0>>
    /\ last' = [op |-> "exit", outcome |-> "ok"]
    /\ UNCHANGED <<storage, self_month, nextOid, sessions, calls>>

\* A call that leaves the list of buckets as months: it counts when it
\* changed them.
Counted(months) ==
    /\ _months' = months
    /\ months # _months => calls < MaxCalls
    /\ calls' = IF months # _months THEN calls + 1 ELSE calls

\* DataController.demo_start_up
DemoStartUp ==
    /\ pc = "up"
    /\ Counted(DataController_demo_start_up(_months, nextOid))
    /\ nextOid' = nextOid + 6
    /\ last' = [op |-> "demo_start_up", outcome |-> "ok"]
    /\ UNCHANGED <<storage, pc, self_month, sessions, started>>

\* A call of one of the three DataController methods that take an event.
Call(op, r, event) ==
    /\ pc = "up"
    /\ Counted(r.months)
    /\ last' = [op |-> op, event |-> event, outcome |-> r.outcome, msg |-> r.msg]
    /\ UNCHANGED <<storage, pc, self_month, nextOid, sessions, started>>

AddEvent(event) ==
    Call("add_event", DataController_add_event(_months, event), event)

RemoveEvent(event) ==
    Call("remove_event", DataController_remove_event(_months, event), event)

UpdateEvent(event) ==
    Call("update_event", DataController_update_event(_months, event), event)

\* DataController.get_events(month, year)
GetEvents(key) ==
    /\ pc = "up"
    /\ last' = [op |-> "get_events", key |-> key, outcome |-> "ok",
                ret |-> DataController_get_events(_months, key[1], key[2])]
    /\ UNCHANGED <<storage, pc, self_month, _months, nextOid, sessions, calls, started>>

\* A call of a Month method on the caller's own bucket, as in TestMonth.
MonthCall(op, r, event) ==
    /\ pc = "month"
    /\ self_month' = r.month
    /\ last' = [op |-> op, event |-> event, outcome |-> r.outcome, msg |-> r.msg]
    /\ UNCHANGED <<storage, pc, _months, nextOid, sessions, calls, started>>

MonthAddEvent(event) ==
    MonthCall("Month.add_event", Month_add_event(self_month, event), event)

MonthRemoveEvent(event) ==
    MonthCall("Month.remove_event", Month_remove_event(self_month, event), event)

MonthUpdateEvent(event) ==
    MonthCall("Month.update_event", Month_update_event(self_month, event), event)

\* A run is one of a caller with a Month of its own (pc = "month") or one
\* of the process with its DataController; the two share no state.
Init ==
    /\ \/ pc = "down" /\ storage \in Directories /\ self_month = Month(1, 2023)
       \/ pc = "month" /\ storage = <<>> /\ self_month \in {Month(k[1], k[2]) : k \in Keys}
    /\ _months = <<>>
    /\ nextOid = FirstOid
    /\ sessions = 0
    /\ calls = 0
    /\ started = <<0, 0>>
    /\ last = [op |-> "none", outcome |-> "ok"]

Next ==
    \/ \E now \in SessionDates : StartUp(now)
    \/ ShutDown
    \/ Exit
    \/ DemoStartUp
    \/ \E event \in Arguments : AddEvent(event)
    \/ \E event \in Arguments : RemoveEvent(event)
    \/ \E event \in Arguments : UpdateEvent(event)
    \/ \E key \in Keys : GetEvents(key)
    \/ \E event \in MonthPool \cup {NotAnEvent} : MonthAddEvent(event)
    \/ \E event \in MonthPool \cup {NotAnEvent} : MonthRemoveEvent(event)
    \/ \E event \in MonthPool \cup {NotAnEvent} : MonthUpdateEvent(event)

Spec == Init /\ [][Next]_vars

\* Runs of the main block (lines 350-360) over a directory of 12 months:
\* the process starts on any date, loads, saves and ends.
InitWindow ==
    /\ pc = "down"
    /\ storage \in WindowDirectories
    /\ self_month = Month(1, 2023)
    /\ _months = <<>>
    /\ nextOid = FirstOid
    /\ sessions = 0
    /\ calls = 0
    /\ started = <<0, 0>>
    /\ last = [op |-> "none", outcome |-> "ok"]

NextWindow ==
    \/ \E now \in WindowDates : StartUp(now)
    \/ ShutDown
    \/ Exit

SpecWindow == InitWindow /\ [][NextWindow]_vars

(***************************************************************************)
(* Properties.                                                             *)
(***************************************************************************)
\* The (month, year) pairs of a list of buckets, and of a directory's records.
BucketKeys(months) == {<<months[i]._month, months[i]._year>> : i \in 1..Len(months)}
RecordKeys(files) == {<<files[i].data.month, files[i].data.year>> : i \in 1..Len(files)}

\* The 5 months from two before to two after the month of now.
Window(now) ==
    {<<MonthOfIndex(n), YearOfIndex(n)>> :
        n \in (MonthIndex(now[1], now[2]) - 2)..(MonthIndex(now[1], now[2]) + 2)}

\* C4: after a start-up load on any date, a persisted record has a bucket if
\* and only if its (month, year) is one of the 5 months around the current
\* month, across year ends; when the directory holds records of 12 distinct
\* months that include those 5, exactly 5 buckets exist, one for each, and
\* the other 7 records have none.
C4_WindowedLoad ==
    (last.op = "start_up" /\ last.outcome = "ok") =>
        /\ \A key \in RecordKeys(storage) :
              key \in BucketKeys(_months) <=> key \in Window(last.now)
        /\ (Len(storage) = 12 /\ Cardinality(RecordKeys(storage)) = 12
               /\ Window(last.now) \subseteq RecordKeys(storage)) =>
              /\ Len(_months) = 5
              /\ BucketKeys(_months) = Window(last.now)
              /\ Cardinality(RecordKeys(storage) \ BucketKeys(_months)) = 7

\* C4 witness: a start in January 2023 over 12 months that include its
\* window has loaded 5 buckets, November 2022 among them.
C4_Witness ==
    /\ last.op = "start_up" /\ last.outcome = "ok" /\ last.now = <<1, 2023>>
    /\ Cardinality(RecordKeys(storage)) = 12
    /\ Window(last.now) \subseteq RecordKeys(storage)
    /\ Len(_months) = 5
    /\ <<11, 2022>> \in BucketKeys(_months)


\* The bucket get_events answers from, for the month and year of an event.
EventsOf(months, event) ==
    DataController_get_events(months, event.event_date.month, event.event_date.year)

\* The Events objects that exist outside the program's reach or in a bucket.
Objects == MonthPool \cup UNION {Range(_months[i]._events) : i \in 1..Len(_months)}
                \cup Range(self_month._events)

\* No bucket holds two events with the same event_id.
UniqueIds(m) ==
    \A j, k \in 1..Len(m._events) :
        m._events[j].event_id = m._events[k].event_id => j = k

\* The first bucket of the list with the month and year of the event.
FirstMatch(months, event) ==
    CHOOSE i \in 1..Len(months) :
        /\ Matches(months[i], event)
        /\ \A j \in 1..(i - 1) : ~Matches(months[j], event)

\* An add, through the controller or on a Month, of an event whose id is
\* already in the target bucket raises ValueError and changes nothing.
DuplicateAddFails ==
    /\ \A event \in Arguments :
          (/\ AddEvent(event)
           /\ event.class = "Events"
           /\ \E i \in 1..Len(_months) : Matches(_months[i], event)
           /\ \E k \in 1..Len(_months[FirstMatch(_months, event)]._events) :
                 _months[FirstMatch(_months, event)]._events[k].event_id
                     = event.event_id)
          => /\ last'.outcome = "ValueError"
             /\ last'.msg = "event already exists in the month"
             /\ _months' = _months
    /\ \A event \in MonthPool :
          (/\ MonthAddEvent(event)
           /\ \E k \in 1..Len(self_month._events) :
                 self_month._events[k].event_id = event.event_id)
          => /\ last'.outcome = "ValueError"
             /\ self_month' = self_month

\* C1: in every reachable state no bucket (of the controller, or a Month of
\* the caller) holds two events with the same event_id, and an add of an
\* event whose id is in the target bucket fails with ValueError and leaves
\* the bucket as it was.
C1_NoDuplicateIds ==
    /\ [](UniqueIds(self_month) /\ \A i \in 1..Len(_months) : UniqueIds(_months[i]))
    /\ [][DuplicateAddFails]_vars

\* C1 witness: the controller's add_event has failed with the duplicate
\* error on an event that is another object than the one holding its id.
C1_Witness ==
    /\ last.op = "add_event" /\ last.outcome = "ValueError"
    /\ last.msg = "event already exists in the month"
    /\ \E k \in 1..Len(EventsOf(_months, last.event)) :
          /\ EventsOf(_months, last.event)[k].event_id = last.event.event_id
          /\ ~PyEq(EventsOf(_months, last.event)[k], last.event)
    /\ Len(EventsOf(_months, last.event)) = 2

\* C2: Month.add_event of an event whose date gives another month or year
\* than the bucket's fails with ValueError and leaves the bucket's list as
\* it was.
C2_MismatchRejected ==
    [][\A event \in MonthPool :
          (/\ MonthAddEvent(event)
           /\ (get_month(event) # self_month._month
                 \/ get_year(event) # self_month._year))
          => /\ last'.outcome = "ValueError"
             /\ last'.msg = "event month and year must match month and year of the Month object"
             /\ self_month'._events = self_month._events]_vars

\* C2 witness: Month.add_event has rejected an event of another month on a
\* bucket that holds an event.
C2_Witness ==
    /\ last.op = "Month.add_event" /\ last.outcome = "ValueError"
    /\ get_month(last.event) # self_month._month
    /\ Len(self_month._events) > 0

\* C3: the controller holds at most one bucket per (month, year).
C3_OneBucketPerKey ==
    \A i, j \in 1..Len(_months) :
        (_months[i]._month = _months[j]._month /\ _months[i]._year = _months[j]._year)
            => i = j

\* The events of a bucket as a set of field values.
FieldSet(m) == {Fields(m._events[k]) : k \in 1..Len(m._events)}

\* C5: a start-up load after shut_down, on a date whose window covers the
\* saved months, yields for every saved bucket a bucket with the same set of
\* events, every field as it was in memory before the save.
C5_RoundTrip ==
    [][(pc = "saved" /\ pc' = "up") =>
          \A i \in 1..Len(_months) :
              <<_months[i]._month, _months[i]._year>> \in Window(last'.now) =>
                  \E j \in 1..Len(_months') :
                      /\ _months'[j]._month = _months[i]._month
                      /\ _months'[j]._year = _months[i]._year
                      /\ FieldSet(_months'[j]) = FieldSet(_months[i])]_vars

\* C6: once remove_event(e) has returned without error, e is not in what
\* get_events returns for its month and year (on a Month: not in the
\* bucket's list), and it stays out until an add of e.
C6_RemoveThenGet ==
    /\ []((last.op = "remove_event" /\ last.outcome = "ok")
             => ~Contains(EventsOf(_months, last.event), last.event))
    /\ []((last.op = "Month.remove_event" /\ last.outcome = "ok")
             => ~Contains(self_month._events, last.event))
    /\ [][\A e \in Objects :
             /\ (~Contains(EventsOf(_months, e), e) /\ Contains(EventsOf(_months', e), e))
                   => AddEvent(e)
             /\ (~Contains(self_month._events, e) /\ Contains(self_month'._events, e))
                   => MonthAddEvent(e)]_vars

\* C6 witness: the controller's remove_event has returned without error and
\* the bucket still holds another event.
C6_Witness ==
    /\ last.op = "remove_event" /\ last.outcome = "ok"
    /\ Len(EventsOf(_months, last.event)) > 0

\* C7: add_event of an event no bucket matches appends one bucket for its
\* month and year, leaves every other bucket as it was, and get_events for
\* that month and year then returns the event alone.
C7_AddCreatesBucket ==
    [][\A event \in Arguments :
          (/\ AddEvent(event)
           /\ event.class = "Events"
           /\ ~\E i \in 1..Len(_months) : Matches(_months[i], event))
          => /\ last'.outcome = "ok"
             /\ Len(_months') = Len(_months) + 1
             /\ \A i \in 1..Len(_months) : _months'[i] = _months[i]
             /\ Matches(_months'[Len(_months')], event)
             /\ EventsOf(_months', event) = <<event>>]_vars

\* C7 witness: add_event has appended a bucket holding the event alone to a
\* list that held a bucket already.
C7_Witness ==
    /\ last.op = "add_event" /\ last.outcome = "ok"
    /\ Len(_months) > 1
    /\ Matches(_months[Len(_months)], last.event)
    /\ _months[Len(_months)]._events = <<last.event>>

\* C8: get_events for a (month, year) without a bucket returns an empty
\* list, raises nothing, and leaves the list of buckets as it was.
C8_GetEventsEmpty ==
    [][\A key \in Keys :
          (GetEvents(key) /\ key \notin BucketKeys(_months))
          => /\ last'.outcome = "ok"
             /\ last'.ret = <<>>
             /\ _months' = _months]_vars

\* C8 witness: get_events has returned an empty list for a month without a
\* bucket while another month has a bucket that holds events.
C8_Witness ==
    /\ last.op = "get_events" /\ last.ret = <<>>
    /\ last.key \notin BucketKeys(_months)
    /\ \E i \in 1..Len(_months) : Len(_months[i]._events) > 0

\* Every event of the bucket is dated in the bucket's month and year.
DatesMatch(m) ==
    \A k \in 1..Len(m._events) :
        get_month(m._events[k]) = m._month /\ get_year(m._events[k]) = m._year

\* C9: in every reachable state every event held in a bucket has a date
\* whose month and year are the bucket's.
C9_EventsMatchBucket ==
    DatesMatch(self_month) /\ \A i \in 1..Len(_months) : DatesMatch(_months[i])

\* C9 witness: after a load and an add, two buckets hold events.
C9_Witness ==
    /\ last.op = "add_event" /\ last.outcome = "ok"
    /\ \E i, j \in 1..Len(_months) :
          /\ i # j
          /\ Len(_months[i]._events) > 1
          /\ Len(_months[j]._events) > 0

\* The first position of a list whose entry has the field values of event.
FirstEqual(events, event) ==
    CHOOSE i \in 1..Len(events) :
        /\ Fields(events[i]) = Fields(event)
        /\ \A j \in 1..(i - 1) : Fields(events[j]) # Fields(event)

\* The list without its entry at position i.
Without(events, i) == SubSeq(events, 1, i - 1) \o SubSeq(events, i + 1, Len(events))

InWindow(f, now) == f.name.ext = "yaml" /\ ~Skipped(f.data, now)

\* C11: after a start-up load over a directory that holds, inside the
\* window, a record without an events field, the load has not aborted (the
\* controller is up) and every other record inside the window has a bucket.
C11_LoadIsBestEffort ==
    (/\ last.op = "start_up"
     /\ \E i \in 1..Len(storage) :
           /\ InWindow(storage[i], last.now)
           /\ "events" \notin storage[i].data.keys)
    => /\ last.outcome = "ok"
       /\ pc = "up"
       /\ \A j \in 1..Len(storage) :
             (/\ InWindow(storage[j], last.now)
              /\ "events" \in storage[j].data.keys)
             => <<storage[j].data.month, storage[j].data.year>>
                    \in BucketKeys(_months)

\* Some bucket with the month and year of the event holds the event.
Held(months, event) ==
    \E i \in 1..Len(months) :
        Matches(months[i], event) /\ Contains(months[i]._events, event)

\* C12: DataController.remove_event and DataController.update_event of an
\* event that no bucket of its month and year holds (also when there is no
\* such bucket) fail with ValueError, and the list of buckets and every
\* bucket's events are after the call what they were before it.
C12_NotFoundChangesNothing ==
    [][\A event \in Arguments :
          (/\ last'.op \in {"remove_event", "update_event"}
           /\ event.class = "Events"
           /\ ~Held(_months, event)
           /\ RemoveEvent(event) \/ UpdateEvent(event))
          => /\ last'.outcome = "ValueError"
             /\ last'.msg = "event not found in the DataController"
             /\ _months' = _months]_vars

\* An update_event has failed on an event that has a bucket for its month
\* and year, which holds an event with the same field values but not the
\* event; a remove_event fails in the same way when there is no bucket.
C12_Witness ==
    /\ pc = "up"
    /\ last.op = "update_event"
    /\ last.outcome = "ValueError"
    /\ ~Held(_months, last.event)
    /\ \E i \in 1..Len(_months) :
          /\ Matches(_months[i], last.event)
          /\ \E k \in 1..Len(_months[i]._events) :
                Fields(_months[i]._events[k]) = Fields(last.event)

\* C13: a successful update_event, of a Month or of the DataController,
\* leaves the bucket's length as it was, has the event at the position where
\* it was found and the events of before at every other position, and
\* leaves every other bucket as it was.
C13_UpdateInPlace ==
    [][/\ \A event \in Arguments :
             (/\ last'.op = "update_event" /\ last'.outcome = "ok"
              /\ UpdateEvent(event))
             => /\ Len(_months') = Len(_months)
                /\ \E i \in 1..Len(_months) :
                      /\ Matches(_months[i], event)
                      /\ _months'[i]._month = _months[i]._month
                      /\ _months'[i]._year = _months[i]._year
                      /\ Len(_months'[i]._events) = Len(_months[i]._events)
                      /\ \E k \in 1..Len(_months[i]._events) :
                            /\ _months[i]._events[k].oid = event.oid
                            /\ _months'[i]._events[k] = event
                            /\ \A j \in 1..Len(_months[i]._events) \ {k} :
                                  _months'[i]._events[j] = _months[i]._events[j]
                      /\ \A j \in 1..Len(_months) \ {i} : _months'[j] = _months[j]
       /\ \A event \in MonthPool :
             (/\ last'.op = "Month.update_event" /\ last'.outcome = "ok"
              /\ MonthUpdateEvent(event))
             => /\ self_month'._month = self_month._month
                /\ self_month'._year = self_month._year
                /\ Len(self_month'._events) = Len(self_month._events)
                /\ \E k \in 1..Len(self_month._events) :
                      /\ self_month._events[k].oid = event.oid
                      /\ self_month'._events[k] = event
                      /\ \A j \in 1..Len(self_month._events) \ {k} :
                            self_month'._events[j] = self_month._events[j]]_vars

\* The DataController has updated the second event of a bucket.
C13_Witness ==
    /\ pc = "up"
    /\ last.op = "update_event"
    /\ last.outcome = "ok"
    /\ \E i \in 1..Len(_months) :
          /\ Matches(_months[i], last.event)
          /\ Len(_months[i]._events) >= 2
          /\ _months[i]._events[2].oid = last.event.oid

\* C14: when a process that was started while the month of an event lay
\* outside the load window adds that event and then shuts down, every
\* event that the persisted record of that month held before is still in
\* the record of that month afterwards, together with the added event.
C14_SessionKeepsRecord ==
    [][(/\ ShutDown
        /\ last.op = "add_event"
        /\ last.outcome = "ok"
        /\ <<get_month(last.event), get_year(last.event)>> \notin Window(started))
       => \A i \in 1..Len(storage) :
             (/\ storage[i].name.ext = "yaml"
              /\ "events" \in storage[i].data.keys
              /\ storage[i].data.month = get_month(last.event)
              /\ storage[i].data.year = get_year(last.event))
             => \E j \in 1..Len(storage') :
                   /\ storage'[j].name = storage[i].name
                   /\ \A k \in 1..Len(storage[i].data.events) :
                         storage[i].data.events[k]
                             \in Range(storage'[j].data.events)
                   /\ EventData(last.event) \in Range(storage'[j].data.events)]_vars

\* C15: shut_down leaves, for every bucket in memory, a persisted record
\* under the bucket's file name that holds the bucket's month, its year and
\* all its events in the order of its list, and leaves every record whose
\* month and year have no bucket as it was.
C15_ShutDownWritesEveryBucket ==
    [][ShutDown
       => /\ \A i \in 1..Len(_months) :
                \E j \in 1..Len(storage') :
                    /\ storage'[j].name = FileName(_months[i])
                    /\ storage'[j].data = MonthData(_months[i])
          /\ \A j \in 1..Len(storage) :
                <<storage[j].data.month, storage[j].data.year>>
                    \notin BucketKeys(_months)
                => \E k \in 1..Len(storage') : storage'[k] = storage[j]]_vars

\* A persisted record with an event dated outside the record's month and
\* year, and one with an event whose id repeats that of an earlier event.
Misdated(data) ==
    \E k \in 1..Len(data.events) :
        \/ data.events[k].event_date[1] # data.year
        \/ data.events[k].event_date[2] # data.month
RepeatedId(data) ==
    \E j, k \in 1..Len(data.events) :
        j < k /\ data.events[j].event_id = data.events[k].event_id

\* C16: a start-up load that reaches, inside the window, a record with an
\* event that Month.add_event rejects (dated outside the record's month and
\* year, or repeating the id of an earlier event of the record) fails with
\* the ValueError of Month.add_event: no controller exists afterwards, so
\* the record was not passed over and has no bucket.
C16_RejectedEventFailsLoad ==
    (/\ last.op = "start_up"
     /\ \A i \in 1..Len(storage) :
           InWindow(storage[i], last.now) => "events" \in storage[i].data.keys
     /\ \E i \in 1..Len(storage) :
           /\ InWindow(storage[i], last.now)
           /\ Misdated(storage[i].data) \/ RepeatedId(storage[i].data))
    => /\ last.outcome = "ValueError"
       /\ pc = "down"
       /\ _months = <<>>
       /\ last.msg \in {"event month and year must match month and year of the Month object",
                        "event already exists in the month"}
       /\ last.msg = "event month and year must match month and year of the Month object"
             => \E i \in 1..Len(storage) :
                   InWindow(storage[i], last.now) /\ Misdated(storage[i].data)
       /\ last.msg = "event already exists in the month"
             => \E i \in 1..Len(storage) :
                   InWindow(storage[i], last.now) /\ RepeatedId(storage[i].data)

\* A start-up load has failed on a record inside the window that holds two
\* events with the same id, after loading the record of another month.
C16_Witness ==
    /\ last.op = "start_up"
    /\ last.outcome = "ValueError"
    /\ last.msg = "event already exists in the month"
    /\ pc = "down"
    /\ \E i \in 1..Len(storage) :
          InWindow(storage[i], last.now) /\ RepeatedId(storage[i].data)
    /\ \E i \in 1..Len(storage) :
          /\ InWindow(storage[i], last.now)
          /\ ~RepeatedId(storage[i].data) /\ ~Misdated(storage[i].data)

\* C17: no call on a running controller takes a bucket off the list, so the
\* set of (month, year) with a bucket never shrinks; a remove_event that
\* takes the last event of a bucket leaves the bucket on the list with an
\* empty list of events, and get_events for its month and year then returns
\* an empty list; an add_event for a month and year that has a bucket puts
\* the event into that bucket and adds no bucket.
C17_BucketsAreNeverRemoved ==
    [][/\ (pc = "up" /\ pc' = "up")
          => /\ BucketKeys(_months) \subseteq BucketKeys(_months')
             /\ Len(_months') >= Len(_months)
             /\ \A i \in 1..Len(_months) :
                   /\ _months'[i]._month = _months[i]._month
                   /\ _months'[i]._year = _months[i]._year
       /\ \A event \in Arguments :
             (/\ last'.op = "remove_event" /\ last'.outcome = "ok"
              /\ RemoveEvent(event)
              /\ Len(_months[Holder(_months, event)]._events) = 1)
             => /\ Len(_months') = Len(_months)
                /\ _months'[Holder(_months, event)] =
                       Month(get_month(event), get_year(event))
                /\ DataController_get_events(_months', get_month(event),
                                             get_year(event)) = <<>>
       /\ \A event \in Arguments :
             (/\ last'.op = "add_event" /\ last'.outcome = "ok"
              /\ AddEvent(event)
              /\ <<get_month(event), get_year(event)>> \in BucketKeys(_months))
             => /\ Len(_months') = Len(_months)
                /\ _months'[FirstMatch(_months, event)]._events =
                       Append(_months[FirstMatch(_months, event)]._events, event)]_vars

\* On an empty directory the third call of the first process was an
\* add_event that succeeded and left one bucket holding that event alone:
\* the calls before it added an event of that month and removed it again.
C17_Witness ==
    /\ pc = "up"
    /\ storage = <<>>
    /\ sessions = 1
    /\ calls = 3
    /\ last.op = "add_event"
    /\ last.outcome = "ok"
    /\ Len(_months) = 1
    /\ _months[1]._events = <<last.event>>

\* C18: a successful add_event leaves the bucket's list as it was with the
\* event put after it, and a successful remove_event leaves it as it was
\* with one entry, which is the event, taken out: the events that stay keep
\* their order, so a list is always the events still held in the order in
\* which they were added.  Both hold for a Month and through the
\* DataController, which changes no other bucket.
C18_InsertionOrder ==
    [][/\ \A event \in MonthPool :
             /\ (/\ last'.op = "Month.add_event" /\ last'.outcome = "ok"
                 /\ MonthAddEvent(event))
                => self_month'._events = Append(self_month._events, event)
             /\ (/\ last'.op = "Month.remove_event" /\ last'.outcome = "ok"
                 /\ MonthRemoveEvent(event))
                => \E k \in 1..Len(self_month._events) :
                      /\ self_month._events[k].oid = event.oid
                      /\ self_month'._events = Without(self_month._events, k)
       /\ \A event \in Arguments :
             /\ (/\ last'.op = "add_event" /\ last'.outcome = "ok"
                 /\ AddEvent(event))
                => \E i \in 1..Len(_months') :
                      /\ Matches(_months'[i], event)
                      /\ _months'[i]._events =
                             IF i <= Len(_months)
                             THEN Append(_months[i]._events, event)
                             ELSE <<event>>
                      /\ \A j \in 1..Len(_months) \ {i} : _months'[j] = _months[j]
             /\ (/\ last'.op = "remove_event" /\ last'.outcome = "ok"
                 /\ RemoveEvent(event))
                => \E i \in 1..Len(_months) :
                      /\ Len(_months') = Len(_months)
                      /\ \E k \in 1..Len(_months[i]._events) :
                            /\ _months[i]._events[k].oid = event.oid
                            /\ _months'[i]._events = Without(_months[i]._events, k)
                      /\ \A j \in 1..Len(_months) \ {i} : _months'[j] = _months[j]]_vars

\* Month.remove_event has taken Yoga off a Month's list of three events:
\* the two that stay are in the order in which they were added.
C18_Witness ==
    /\ pc = "month"
    /\ last.op = "Month.remove_event"
    /\ last.outcome = "ok"
    /\ self_month._events = <<Soccer, Chess>>
    /\ last.event = Yoga

=============================================================================
